---- MODULE Spec2Model ----
(***************************************************************************)
(* State-machine model of src/mp4_to_mp3.py: convert_mp4_to_mp3 and the    *)
(* helpers it calls (check_ffmpeg, check_audio_stream), the encoder        *)
(* subprocess it launches, the stderr pipe between them and the output     *)
(* files on disk.                                                          *)
(*                                                                         *)
(* Strings are sequences of one-character strings, so that os.path.*,      *)
(* str.lower and the extension test are computed as Python computes them.  *)
(* Progress fractions are in tenths (0.5 is 5, 1.0 is 10).                 *)
(***************************************************************************)
EXTENDS Integers, Sequences, FiniteSets, TLC

VARIABLES pool, pc, inp, prog, res, probed, proc, fs

vars == <<pool, pc, inp, prog, res, probed, proc, fs>>

\* Request threads of the host (gradio serves each click on its own worker).
Callers == {"t1", "t2"}

\* Capacity of the OS pipe behind stderr=subprocess.PIPE, in chunks of text.
PipeCap == 1

\* Longest file name of the exhaustive name space of ValSpec.
MaxNameLen == 5

-----------------------------------------------------------------------------
(* Strings and os.path (posixpath / genericpath)                           *)

Alphabet == {"/", ".", "m", "p", "4", "M"}

RECURSIVE SeqsUpTo(_)
SeqsUpTo(n) ==
    IF n = 0 THEN {<<>>}
    ELSE LET shorter == SeqsUpTo(n - 1)
         IN  shorter \cup {Append(s, ch) : s \in {t \in shorter : Len(t) = n - 1}, ch \in Alphabet}

\* Every path of at most MaxNameLen characters over Alphabet.
AllNames == SeqsUpTo(MaxNameLen)

\* The uploads of the concurrent specifications.
Uploads ==
    { <<"a", "/", "x", ".", "m", "p", "4">>,
      <<"a", "/", "x", ".", "M", "P", "4">>,
      <<"b", "/", "x", ".", "m", "p", "4">>,
      <<"a", "/", "x", ".", "a", "v", "i">> }

\* str.rfind(ch) + 1: the 1-based index of the last ch of s, 0 when there is none.
LastIndex(s, ch) ==
    LET hits == {i \in 1..Len(s) : s[i] = ch}
    IN  IF hits = {} THEN 0 ELSE CHOOSE i \in hits : \A j \in hits : j <= i

\* str.rstrip('/')
RECURSIVE RStripSep(_)
RStripSep(s) ==
    IF s # <<>> /\ s[Len(s)] = "/" THEN RStripSep(SubSeq(s, 1, Len(s) - 1)) ELSE s

\* posixpath.basename
basename(p) == SubSeq(p, LastIndex(p, "/") + 1, Len(p))

\* posixpath.dirname
dirname(p) ==
    LET head == SubSeq(p, 1, LastIndex(p, "/"))
    IN  IF head # <<>> /\ (\E i \in 1..Len(head) : head[i] # "/")
        THEN RStripSep(head)
        ELSE head

\* genericpath._splitext on a name without separator: <<root, ext>>
splitext(f) ==
    LET dotIndex == LastIndex(f, ".")
    IN  IF dotIndex > 0 /\ (\E k \in 1..(dotIndex - 1) : f[k] # ".")
        THEN <<SubSeq(f, 1, dotIndex - 1), SubSeq(f, dotIndex, Len(f))>>
        ELSE <<f, <<>>>>

\* posixpath.join(d, f) for an f that does not start with a separator
join(d, f) ==
    IF d = <<>> THEN f
    ELSE IF d[Len(d)] = "/" THEN d \o f
    ELSE d \o <<"/">> \o f

LowerChar(ch) ==
    CASE ch = "M" -> "m"
      [] ch = "P" -> "p"
      [] ch = "A" -> "a"
      [] ch = "V" -> "v"
      [] ch = "I" -> "i"
      [] ch = "X" -> "x"
      [] OTHER -> ch

\* str.lower
lower(s) == [i \in 1..Len(s) |-> LowerChar(s[i])]

Mp4Ext == <<".", "m", "p", "4">>
Mp3Ext == <<".", "m", "p", "3">>

\* A bug the extension test could have: comparing without lower().
ExtAcceptedCaseSensitive(ext) == ext = Mp4Ext

\* line 170: not (ext.lower() != '.mp4')
ExtAccepted(ext) == lower(ext) = Mp4Ext

\* A bug the output name could have: the directory of the upload dropped.
output_file_nodir(name) == splitext(basename(name))[1] \o Mp3Ext

\* lines 167-174: the sibling path with the source's base name and .mp3
output_file(name) ==
    join(dirname(name), splitext(basename(name))[1] \o Mp3Ext)

-----------------------------------------------------------------------------
(* check_ffmpeg                                                            *)

\* What `ffmpeg -version` does ("ok", "nonzero" exit, binary "notfound", another
\* "oserror" such as a binary without execute permission), the platform, and how
\* the download-and-install attempt of win32 ends.
FfEnvs ==
    { e \in [run : {"ok", "nonzero", "notfound", "oserror"},
             win32 : BOOLEAN,
             install : {"ok", "noexe", "error"}] :
        \* install is held fixed where no install is attempted
        /\ (e.run \in {"ok", "oserror"} \/ ~e.win32 => e.install = "error") }

\* "true" / "false", or "raise" when the exception is none of those it catches.
check_ffmpeg(e) ==
    CASE e.run = "ok" -> "true"
      [] e.run = "oserror" -> "raise"
      [] OTHER -> IF e.win32 /\ e.install = "ok" THEN "true" ELSE "false"

-----------------------------------------------------------------------------
(* check_audio_stream                                                      *)

Fragments == {"Stream #", "Audio:"}

\* stdout of ffprobe -of json: unparsable, an object without "streams", with an
\* empty list, with one audio stream.
Stdouts == {"not json", "{}", "{streams: []}", "{streams: [audio]}"}

\* json.loads, and what lines 118-119 read of the value.
json_loads(s) ==
    [ok |-> s # "not json",
     hasStreams |-> s \in {"{streams: []}", "{streams: [audio]}"},
     n |-> IF s = "{streams: [audio]}" THEN 1 ELSE 0]

\* probeRaises: subprocess.run(ffprobe) raises; rc, stdout: what it returns;
\* fbRaises: subprocess.run(ffmpeg -i) raises; fbText: fragments of its stderr.
ProbeEnvs ==
    { e \in [probeRaises : BOOLEAN, rc : {0, 1}, stdout : Stdouts,
             fbRaises : BOOLEAN, fbText : SUBSET Fragments] :
        /\ (e.probeRaises => e.rc = 0 /\ e.stdout = "{}")
        /\ (e.rc # 0 => e.stdout = "{}")
        /\ (e.fbRaises => e.fbText = {})
        \* the fallback is left out where neither the code nor its contract runs it
        /\ (~e.probeRaises /\ e.rc = 0 /\ e.stdout # "not json"
                => ~e.fbRaises /\ e.fbText = {}) }

NoEnv ==
    [probeRaises |-> FALSE, rc |-> 0, stdout |-> "{}", fbRaises |-> FALSE, fbText |-> {}]

check_audio_stream(e) ==
    IF e.probeRaises THEN TRUE
    ELSE IF e.rc = 0
         THEN IF ~json_loads(e.stdout).ok THEN TRUE
              ELSE json_loads(e.stdout).hasStreams /\ json_loads(e.stdout).n > 0
    ELSE IF e.fbRaises THEN TRUE
    ELSE "Stream #" \in e.fbText /\ "Audio:" \in e.fbText

-----------------------------------------------------------------------------
(* State                                                                   *)

Marker == "Output file #0 does not contain any stream"

PollFractionLate == 8 + 1

\* line 213
PollFraction == 5

NoRes == [kind |-> "pending", path |-> {}, step |-> "none"]

NoProc == [st |-> "none", q |-> 0, rc |-> 0, err |-> {}, wrote |-> "none", target |-> <<>>]

NoProbe == [set |-> FALSE, env |-> NoEnv, ans |-> FALSE]

NoHandle == [kind |-> "none", name |-> <<>>]

\* A call's input: the handle, and what check_ffmpeg() answered in this call.
NoInput == [kind |-> "none", name |-> <<>>, ff |-> "unset"]

\* The values gradio may pass: None, a file object with a .name, anything else.
Handles(names) ==
    {[kind |-> "file", name |-> n] : n \in names}
        \cup {NoHandle, [kind |-> "noname", name |-> <<>>]}

exists(p) == p \in DOMAIN fs

getsize(p) == fs[p]

\* The observer's log; a fraction repeated by the polling loop is logged once.
Emit(log, f) == IF log # <<>> /\ log[Len(log)] = f THEN log ELSE Append(log, f)

Return(c, kind, path, step) ==
    /\ res' = [res EXCEPT ![c] = [kind |-> kind, path |-> path, step |-> step]]
    /\ pc' = [pc EXCEPT ![c] = "done"]

InitCalls ==
    /\ pc = [c \in Callers |-> "idle"]
    /\ inp = [c \in Callers |-> NoInput]
    /\ prog = [c \in Callers |-> <<>>]
    /\ res = [c \in Callers |-> NoRes]
    /\ probed = [c \in Callers |-> NoProbe]
    /\ proc = [c \in Callers |-> NoProc]
    /\ fs = [p \in {} |-> 0]

\* The files the users of the form upload.
Init == pool = Uploads /\ InitCalls

\* One file, any name of at most MaxNameLen characters.
ValInit == pool \in {{n} : n \in AllNames} /\ InitCalls

-----------------------------------------------------------------------------
(* convert_mp4_to_mp3, one action per blocking step                        *)

\* A bug line 181 could have: the negative answer of the probe not acted on.
ProceedsAlways(ans) == TRUE

\* line 181: `if not check_audio_stream(...)` returns, anything else goes on
Proceeds(ans) == ans

\* A bug lines 222-237 could have: the output file inspected before the exit code.
classifyOutputFirst(rc, err, p) ==
    IF exists(p) /\ getsize(p) # 0 THEN "Success"
    ELSE IF rc # 0
         THEN IF Marker \in err THEN "NoAudioStream" ELSE "EncodingFailed"
    ELSE "EmptyOutput"

\* lines 222-241: the result for exit code rc, stderr text err, output path p
classify(rc, err, p) ==
    IF rc # 0
    THEN IF Marker \in err THEN "NoAudioStream" ELSE "EncodingFailed"
    ELSE IF ~exists(p) \/ getsize(p) = 0 THEN "EmptyOutput"
    ELSE "Success"

\* lines 155-174: None check, progress(0), check_ffmpeg, name and extension.
\* An exception here is outside the try of line 176 and leaves the call.
Enter(c) ==
    /\ pc[c] \in {"idle", "done", "raised"}
    /\ \E h \in Handles(pool), ff \in {check_ffmpeg(e) : e \in FfEnvs} :
        /\ inp' = [inp EXCEPT ![c] =
                    [kind |-> h.kind, name |-> h.name,
                     ff |-> IF h.kind = "none" THEN "unset" ELSE ff]]
        /\ probed' = [probed EXCEPT ![c] = NoProbe]
        /\ proc' = [proc EXCEPT ![c] = NoProc]
        /\ UNCHANGED <<pool, fs>>
        /\ IF h.kind = "none"
           THEN /\ prog' = [prog EXCEPT ![c] = <<>>]
                /\ Return(c, "NoFile", {}, "enter")
           ELSE /\ prog' = [prog EXCEPT ![c] = <<0>>]
                /\ CASE ff = "raise" ->
                            /\ pc' = [pc EXCEPT ![c] = "raised"]
                            /\ res' = [res EXCEPT ![c] = NoRes]
                     [] ff = "false" ->
                            Return(c, "MissingEncoder", {}, "enter")
                     [] OTHER ->
                            IF h.kind = "noname"
                            THEN /\ pc' = [pc EXCEPT ![c] = "raised"]
                                 /\ res' = [res EXCEPT ![c] = NoRes]
                            ELSE IF ~ExtAccepted(splitext(basename(h.name))[2])
                            THEN Return(c, "InvalidInput", {}, "enter")
                            ELSE /\ pc' = [pc EXCEPT ![c] = "probe"]
                                 /\ res' = [res EXCEPT ![c] = NoRes]

\* lines 178-184: progress(0.1) and the audio-stream probe
Probe(c) ==
    /\ pc[c] = "probe"
    /\ \E e \in ProbeEnvs :
        LET ans == check_audio_stream(e)
        IN  /\ probed' = [probed EXCEPT ![c] = [set |-> TRUE, env |-> e, ans |-> ans]]
            /\ prog' = [prog EXCEPT ![c] = Emit(@, 1)]
            /\ IF Proceeds(ans)
               THEN /\ pc' = [pc EXCEPT ![c] = "launch"]
                    /\ res' = res
               ELSE Return(c, "NoAudioStream", {}, "probe")
    /\ UNCHANGED <<pool, inp, proc, fs>>

\* lines 186-209: progress(0.2), progress(0.3), subprocess.Popen
Launch(c) ==
    /\ pc[c] = "launch"
    /\ prog' = [prog EXCEPT ![c] = Emit(Emit(@, 2), 3)]
    /\ probed' = [probed EXCEPT ![c] = NoProbe]
    /\ \E started \in BOOLEAN :
        IF started
        THEN /\ proc' = [proc EXCEPT ![c] =
                    [NoProc EXCEPT !.st = "running", !.target = output_file(inp[c].name)]]
             /\ pc' = [pc EXCEPT ![c] = "poll"]
             /\ res' = res
        ELSE /\ proc' = proc
             /\ Return(c, "UnexpectedException", {}, "launch")
    /\ UNCHANGED <<pool, inp, fs>>

\* lines 212-213: poll() is None, progress(0.5)
Poll(c) ==
    /\ pc[c] = "poll"
    /\ proc[c].st # "exited"
    /\ prog' = [prog EXCEPT ![c] = Emit(@, PollFraction)]
    /\ pc' = [pc EXCEPT ![c] = "sleep"]
    /\ UNCHANGED <<pool, inp, res, probed, proc, fs>>

\* line 214: time.sleep(0.5)
Sleep(c) ==
    /\ pc[c] = "sleep"
    /\ pc' = [pc EXCEPT ![c] = "poll"]
    /\ UNCHANGED <<pool, inp, prog, res, probed, proc, fs>>

\* lines 212-237: poll() sees the exit, progress(0.8), communicate() reads the
\* pipe to its end, and the classification. The process object is done with;
\* only the local output_file lives on to line 241.
Finalize(c) ==
    /\ pc[c] = "poll"
    /\ proc[c].st = "exited"
    /\ prog' = [prog EXCEPT ![c] = Emit(@, 8)]
    /\ LET kind == classify(proc[c].rc, proc[c].err, proc[c].target)
       IN  IF kind = "Success"
           THEN /\ pc' = [pc EXCEPT ![c] = "complete"]
                /\ res' = res
                /\ proc' = [proc EXCEPT ![c] = [NoProc EXCEPT !.target = proc[c].target]]
           ELSE /\ Return(c, kind, {}, "finalize")
                /\ proc' = [proc EXCEPT ![c] = NoProc]
    /\ UNCHANGED <<pool, inp, probed, fs>>

\* lines 239-241: progress(1.0) and the return of the output path
Complete(c) ==
    /\ pc[c] = "complete"
    /\ prog' = [prog EXCEPT ![c] = Emit(@, 10)]
    /\ Return(c, "Success", {proc[c].target}, "complete")
    /\ proc' = [proc EXCEPT ![c] = NoProc]
    /\ UNCHANGED <<pool, inp, probed, fs>>

-----------------------------------------------------------------------------
(* The encoder process started by line 203                                 *)

\* How a run of the encoder ends: exit code, stderr text, and what it leaves at
\* the output path (-y: the path is overwritten when it is written at all).
EncOutcomes ==
    { o \in [rc : {0, 1}, err : SUBSET {Marker}, wrote : {"none", "empty", "data"}] :
        /\ (o.rc = 0 => o.err = {})
        /\ (o.rc # 0 => o.wrote # "empty") }

\* The encoder writes a chunk of diagnostics into its stderr pipe.
EncoderWrite(c) ==
    /\ proc[c].st = "running"
    /\ proc[c].q < PipeCap
    /\ proc' = [proc EXCEPT ![c].q = @ + 1]
    /\ UNCHANGED <<pool, pc, inp, prog, res, probed, fs>>

\* The encoder writes into a full pipe: it sleeps until a reader drains it.
EncoderBlock(c) ==
    /\ proc[c].st = "running"
    /\ proc[c].q = PipeCap
    /\ proc' = [proc EXCEPT ![c].st = "blocked"]
    /\ UNCHANGED <<pool, pc, inp, prog, res, probed, fs>>

\* The encoder exits. What it wrote stays in the pipe for communicate(); how
\* much that is no longer matters and is no longer tracked.
EncoderExit(c) ==
    /\ proc[c].st = "running"
    /\ \E o \in EncOutcomes :
        /\ proc' = [proc EXCEPT ![c].st = "exited", ![c].q = 0, ![c].rc = o.rc,
                                ![c].err = o.err, ![c].wrote = o.wrote]
        /\ fs' = IF o.wrote = "none" THEN fs
                 ELSE [p \in DOMAIN fs \cup {proc[c].target} |->
                          IF p = proc[c].target
                          THEN (IF o.wrote = "data" THEN 1 ELSE 0)
                          ELSE fs[p]]
    /\ UNCHANGED <<pool, pc, inp, prog, res, probed>>

-----------------------------------------------------------------------------
(* Specifications                                                          *)

CallerStep(c) ==
    \/ Enter(c)
    \/ Probe(c)
    \/ Launch(c)
    \/ Poll(c)
    \/ Sleep(c)
    \/ Finalize(c)
    \/ Complete(c)

EncoderStep(c) ==
    \/ EncoderWrite(c)
    \/ EncoderBlock(c)
    \/ EncoderExit(c)

\* Two request threads, each making call after call.
Next == \E c \in Callers : CallerStep(c) \/ EncoderStep(c)

Spec == Init /\ [][Next]_vars

\* One thread making call after call.
SeqNext == CallerStep("t1") \/ EncoderStep("t1")

SeqSpec == Init /\ [][SeqNext]_vars

\* A thread inside a call runs on, and the OS schedules the encoder.
FairSeqSpec ==
    /\ SeqSpec
    /\ WF_vars(Probe("t1") \/ Launch("t1") \/ Poll("t1") \/ Sleep("t1")
                  \/ Finalize("t1") \/ Complete("t1"))
    /\ WF_vars(EncoderStep("t1"))

\* One thread, one file of any name, call after call.
ValSpec == ValInit /\ [][SeqNext]_vars

-----------------------------------------------------------------------------
(* Vocabulary of the properties                                            *)

Launched(c) == proc[c].st \in {"running", "blocked", "exited"}

\* The extension and the base name as lines 167-168 compute them.
ExtOf(c) == splitext(basename(inp[c].name))[2]
StemOf(c) == splitext(basename(inp[c].name))[1]

IsMp4(ext) ==
    /\ Len(ext) = 4
    /\ ext[1] = "."
    /\ ext[2] \in {"m", "M"}
    /\ ext[3] \in {"p", "P"}
    /\ ext[4] = "4"

NonEmptyFile(f, p) == p \in DOMAIN f /\ f[p] # 0

\* What is at path p in file system f: -1 when nothing is.
FileAt(f, p) == IF p \in DOMAIN f THEN f[p] ELSE -1

Failed(c, kind) == pc[c] = "done" /\ res[c].kind = kind /\ res[c].path = {}

\* The step of c in which poll() has seen the encoder's exit.
Finalizes(c) == pc[c] = "poll" /\ proc[c].st = "exited" /\ pc'[c] # "poll"

\* The step of c that returns the output path (line 241).
Returns(c) == pc[c] = "complete" /\ pc'[c] = "done"

-----------------------------------------------------------------------------
(* C1 *)

\* C1: when the encoder has exited, the call classifies in this order: a
\* non-zero exit code gives NoAudioStream if stderr holds the marker and
\* EncodingFailed otherwise, both with no output path and whatever is at the
\* output path; exit code zero gives EmptyOutput when the output path is missing
\* or empty, and otherwise leads to Success with the output path.
C1_ClassificationOrder ==
    [][\A c \in Callers :
        /\ Finalizes(c) =>
              LET rc == proc[c].rc
                  marked == Marker \in proc[c].err
                  full == NonEmptyFile(fs, proc[c].target)
                  failed(kind) ==
                      /\ pc'[c] = "done"
                      /\ res'[c].kind = kind
                      /\ res'[c].path = {}
              IN  /\ (rc # 0 /\ marked => failed("NoAudioStream"))
                  /\ (rc # 0 /\ ~marked => failed("EncodingFailed"))
                  /\ (rc = 0 /\ ~full => failed("EmptyOutput"))
                  /\ (rc = 0 /\ full =>
                        pc'[c] = "complete" /\ proc'[c].target = proc[c].target)
        /\ Returns(c) =>
              res'[c].kind = "Success" /\ res'[c].path = {proc[c].target}
      ]_vars

\* An encoder exit classified NoAudioStream although the probe had passed and
\* although a non-empty file is at the output path.
C1_Witness ==
    \E c \in Callers :
        /\ Failed(c, "NoAudioStream")
        /\ res[c].step = "finalize"
        /\ NonEmptyFile(fs, output_file(inp[c].name))

-----------------------------------------------------------------------------
(* C2 *)

\* C2: a returned result is a Success with an output path or a failure without
\* one, and a returned output path names a file that exists and is non-empty in
\* the state in which the call returns, also with concurrent calls.
C2_OutputPresentAtReturn ==
    [][\A c \in Callers :
        /\ pc'[c] = "done" => (res'[c].kind = "Success" <=> res'[c].path # {})
        /\ Returns(c) => \A p \in res'[c].path : NonEmptyFile(fs', p)
      ]_vars

-----------------------------------------------------------------------------
(* C3 *)

-----------------------------------------------------------------------------
(* C4 *)

-----------------------------------------------------------------------------
(* C5 *)

\* C5: no exception leaves convert_mp4_to_mp3; every fault of every step,
\* the dependency check and the derivation of the output name included, ends
\* in a returned message and no output path.
C5_NoExceptionEscapes ==
    \A c \in Callers :
        /\ pc[c] # "raised"
        /\ (pc[c] = "done" /\ res[c].kind # "Success" => res[c].path = {})

-----------------------------------------------------------------------------
(* C6 *)

\* C6: check_audio_stream answers from the structured query when it exits zero
\* and parses (true exactly when an audio stream is listed); when the query
\* exits non-zero or does not parse it answers from the fallback (true exactly
\* when its text holds both "Stream #" and "Audio:"); the default true is for
\* both methods failing with an exception only.
C6_ProbeDecision ==
    \A c \in Callers :
        probed[c].set =>
            LET e == probed[c].env
                parsed == json_loads(e.stdout)
                listed == parsed.hasStreams /\ parsed.n >= 1
                both == "Stream #" \in e.fbText /\ "Audio:" \in e.fbText
            IN  /\ (~e.probeRaises /\ e.rc = 0 /\ parsed.ok => probed[c].ans = listed)
                /\ (~e.probeRaises /\ (e.rc # 0 \/ ~parsed.ok) /\ ~e.fbRaises
                        => probed[c].ans = both)
                /\ (e.probeRaises /\ e.fbRaises => probed[c].ans = TRUE)
                /\ (e.probeRaises /\ ~e.fbRaises => probed[c].ans = both)

-----------------------------------------------------------------------------
(* C7 *)

\* C7: in a sequence of calls, a call whose encoder exits with code zero and
\* leaves a zero-length file or writes no file returns EmptyOutput and no output
\* path, whatever earlier calls left behind.
C7_EmptyOutputEveryCall ==
    [][\A c \in Callers :
        Finalizes(c) /\ proc[c].rc = 0 /\ proc[c].wrote \in {"none", "empty"} =>
            /\ pc'[c] = "done"
            /\ res'[c].kind = "EmptyOutput"
            /\ res'[c].path = {}
      ]_vars

-----------------------------------------------------------------------------
(* C8 *)

\* Whether two inputs have the same directory and the same base name.
SameDirStem(m, n) ==
    /\ dirname(m) = dirname(n)
    /\ splitext(basename(m))[1] = splitext(basename(n))[1]

\* C8 as claimed: two running calls have the same output path exactly when
\* their inputs have the same base name (the `basename` of line 168).
C8_SamePathIffSameBasename ==
    \A c, d \in Callers :
        c # d /\ Launched(c) /\ Launched(d) =>
            (proc[c].target = proc[d].target <=> StemOf(c) = StemOf(d))

\* C8 amended: each call's encoder writes to the path derived from its own
\* input; two running calls have the same output path exactly when their
\* inputs have the same directory and the same base name (file name without
\* extension); and what is at the output path of a running call changes only
\* when the encoder of a call with that directory and base name exits; a step
\* of one call or of its encoder changes nothing else of another call. (Input
\* and output path of a call are fixed while its encoder lives, so the paths
\* are compared in the step that launches the later of two encoders.)
C8_SamePathIffSameDirAndStem ==
    [][\A c \in Callers :
        /\ proc[c].st = "none" /\ proc'[c].st = "running" =>
            /\ basename(proc'[c].target) = splitext(basename(inp'[c].name))[1] \o Mp3Ext
            /\ \A d \in Callers :
                    proc'[d].st \in {"running", "blocked", "exited"} =>
                        (proc'[c].target = proc'[d].target
                            <=> SameDirStem(inp'[c].name, inp'[d].name))
        /\ fs' # fs /\ Launched(c)
              /\ FileAt(fs', proc[c].target) # FileAt(fs, proc[c].target) =>
                \E d \in Callers :
                    /\ SameDirStem(inp[c].name, inp[d].name)
                    /\ proc[d].st = "running"
                    /\ proc'[d].st = "exited"
        /\ \A d \in Callers \ {c} :
                pc'[d] # pc[d] \/ proc'[d] # proc[d] =>
                    /\ pc'[c] = pc[c]
                    /\ res'[c] = res[c]
                    /\ prog'[c] = prog[c]
                    /\ proc'[c] = proc[c]
      ]_vars

\* Two running calls for different files race on one output path, and one of
\* the two encoders has written it.
C8_Witness ==
    \E c, d \in Callers :
        /\ c # d
        /\ Launched(c)
        /\ Launched(d)
        /\ inp[c].name # inp[d].name
        /\ proc[c].target = proc[d].target
        /\ proc[c].st = "exited"
        /\ proc[c].wrote = "data"

-----------------------------------------------------------------------------
(* C9 *)

\* C9: once the encoder is launched, and given that it exits on its own when
\* its output is consumed, the call eventually returns, however much text the
\* encoder writes to its pipes.
C9_LaunchedCallReturns ==
    \A c \in Callers : Launched(c) ~> (pc[c] = "done")

-----------------------------------------------------------------------------
(* C10 *)

\* The fraction emitted last before the return of each step.
StepFraction(step) ==
    CASE step = "enter" -> 0
      [] step = "probe" -> 1
      [] step = "launch" -> 3
      [] step = "finalize" -> 8
      [] step = "complete" -> 10

\* C10: for a non-None input the fractions emitted lie in [0,1], start at 0
\* and never decrease; a returned call's last fraction is that of the step that
\* returned; and 1.0 is emitted exactly by the calls that return Success, as
\* their last event.
C10_ProgressSequence ==
    \A c \in Callers :
        pc[c] # "idle" /\ inp[c].kind # "none" =>
            LET log == prog[c]
            IN  /\ log # <<>>
                /\ log[1] = 0
                /\ \A i \in 1..Len(log) : log[i] \in 0..10
                /\ \A i \in 1..(Len(log) - 1) : log[i] <= log[i + 1]
                /\ (pc[c] = "done" => log[Len(log)] = StepFraction(res[c].step))
                /\ ((\E i \in 1..Len(log) : log[i] = 10)
                        <=> (pc[c] = "done" /\ res[c].kind = "Success"))
                /\ \A i \in 1..Len(log) : log[i] = 10 => i = Len(log)

\* A call that polled at least once and returned Success.
C10_Witness ==
    \E c \in Callers :
        /\ pc[c] = "done"
        /\ res[c].kind = "Success"
        /\ \E i \in 1..Len(prog[c]) : prog[c][i] = PollFraction

====
